---- MODULE Spec2Model ----
(***************************************************************************)
(* btc_tracker.py: the password-protected configuration store              *)
(* (derive_key / encrypt_config / decrypt_config), the first-run setup,    *)
(* the load path and the sequential main() pass over price, address and    *)
(* exchange lookups.                                                       *)
(*                                                                         *)
(* Text and bytes are sequences of integers 0..255 (a str is the sequence  *)
(* of its ASCII codes).  json, base64, PKCS7 and the token framing are     *)
(* computed as the libraries compute them.  PBKDF2, AES and HMAC are       *)
(* replaced by small arithmetic stand-ins with the same shape (key and     *)
(* input dependent, invertible cipher, CBC chaining, 32-byte tag).         *)
(***************************************************************************)
EXTENDS Integers, Sequences, FiniteSets, TLC

(***************************************************************************)
(* Sequence helpers: Python slices and concatenation                       *)
(***************************************************************************)
Min(a, b) == IF a < b THEN a ELSE b

Max(a, b) == IF a > b THEN a ELSE b

\* s[:n]
Take(s, n) == SubSeq(s, 1, Min(n, Len(s)))

\* s[n:]
Drop(s, n) == SubSeq(s, Min(n, Len(s)) + 1, Len(s))

\* s[-n:]
TakeLast(s, n) == SubSeq(s, Max(Len(s) - n, 0) + 1, Len(s))

\* s[:-n]  (n > 0)
DropLast(s, n) == SubSeq(s, 1, Max(Len(s) - n, 0))

RECURSIVE Concat(_)
Concat(ss) == IF ss = <<>> THEN <<>> ELSE Head(ss) \o Concat(Tail(ss))

(***************************************************************************)
(* str.strip(): removes leading and trailing whitespace                    *)
(***************************************************************************)
IsSpace(c) == c \in {9, 32}

RECURSIVE lstrip(_)
lstrip(s) == IF s # <<>> /\ IsSpace(Head(s)) THEN lstrip(Tail(s)) ELSE s

RECURSIVE rstrip(_)
rstrip(s) == IF s # <<>> /\ IsSpace(s[Len(s)]) THEN rstrip(DropLast(s, 1)) ELSE s

strip(s) == rstrip(lstrip(s))

(***************************************************************************)
(* json.dumps / json.loads on the values the program stores: a dict is a   *)
(* sequence of <<key, value>> in insertion order, a value is a string      *)
(* [t |-> "str", v |-> chars] or a list of strings [t |-> "list", v |-> .].*)
(***************************************************************************)
Str(s) == [t |-> "str", v |-> s]

List(l) == [t |-> "list", v |-> l]

QUOTE == <<34>>

\* variant: the backslash is written as it is
EscapeCharQuoteOnly(c) == IF c = 34 THEN <<92, c>> ELSE <<c>>

\* py_encode_basestring_ascii on printable ASCII: only " and \ are escaped
EscapeChar(c) == IF c \in {34, 92} THEN <<92, c>> ELSE <<c>>

dumps_str(s) == QUOTE \o Concat([i \in 1..Len(s) |-> EscapeChar(s[i])]) \o QUOTE

\* items joined with ", "
JoinComma(items) ==
    Concat([i \in 1..Len(items) |-> IF i = 1 THEN items[i] ELSE <<44, 32>> \o items[i]])

dumps_value(val) ==
    IF val.t = "str"
    THEN dumps_str(val.v)
    ELSE <<91>> \o JoinComma([i \in 1..Len(val.v) |-> dumps_str(val.v[i])]) \o <<93>>

\* json.dumps(dict) with the default separators (", ", ": ")
json_dumps(d) ==
    <<123>>
    \o JoinComma([i \in 1..Len(d) |-> dumps_str(d[i][1]) \o <<58, 32>> \o dumps_value(d[i][2])])
    \o <<125>>

ParseFail == [ok |-> FALSE, val |-> <<>>, next |-> 0]

RECURSIVE SkipWs(_, _)
SkipWs(s, i) == IF i <= Len(s) /\ s[i] \in {9, 10, 13, 32} THEN SkipWs(s, i + 1) ELSE i

\* the body of a string from position i (after the opening quote)
RECURSIVE ScanString(_, _, _)
ScanString(s, i, acc) ==
    IF i > Len(s) THEN ParseFail
    ELSE IF s[i] = 34 THEN [ok |-> TRUE, val |-> acc, next |-> i + 1]
    ELSE IF s[i] = 92
         THEN IF i + 1 <= Len(s) /\ s[i + 1] \in {34, 92}
              THEN ScanString(s, i + 2, Append(acc, s[i + 1]))
              ELSE ParseFail
    ELSE IF s[i] < 32 THEN ParseFail
    ELSE ScanString(s, i + 1, Append(acc, s[i]))

ParseString(s, i) ==
    IF i <= Len(s) /\ s[i] = 34 THEN ScanString(s, i + 1, <<>>) ELSE ParseFail

\* the elements of an array from position i (after "[" or after a ",")
RECURSIVE ScanArray(_, _, _)
ScanArray(s, i, acc) ==
    LET e == ParseString(s, SkipWs(s, i))
        j == SkipWs(s, e.next)
    IN  IF ~e.ok \/ j > Len(s) THEN ParseFail
        ELSE IF s[j] = 93 THEN [ok |-> TRUE, val |-> Append(acc, e.val), next |-> j + 1]
        ELSE IF s[j] = 44 THEN ScanArray(s, j + 1, Append(acc, e.val))
        ELSE ParseFail

ParseValue(s, i) ==
    IF i > Len(s) THEN ParseFail
    ELSE IF s[i] = 34
         THEN LET r == ParseString(s, i)
              IN  IF r.ok THEN [r EXCEPT !.val = Str(r.val)] ELSE ParseFail
    ELSE IF s[i] = 91
         THEN LET j == SkipWs(s, i + 1)
              IN  IF j <= Len(s) /\ s[j] = 93
                  THEN [ok |-> TRUE, val |-> List(<<>>), next |-> j + 1]
                  ELSE LET r == ScanArray(s, j, <<>>)
                       IN  IF r.ok THEN [r EXCEPT !.val = List(r.val)] ELSE ParseFail
    ELSE ParseFail

\* dict semantics: a repeated key keeps its place and takes the last value
DictSet(d, k, v) ==
    IF \E n \in 1..Len(d) : d[n][1] = k
    THEN [n \in 1..Len(d) |-> IF d[n][1] = k THEN <<k, v>> ELSE d[n]]
    ELSE Append(d, <<k, v>>)

\* the members of an object from position i (after "{" or after a ",")
RECURSIVE ScanObject(_, _, _)
ScanObject(s, i, acc) ==
    LET k == ParseString(s, SkipWs(s, i))
        c == SkipWs(s, k.next)
    IN  IF ~k.ok \/ c > Len(s) \/ s[c] # 58 THEN ParseFail
        ELSE LET v == ParseValue(s, SkipWs(s, c + 1))
                 j == SkipWs(s, v.next)
             IN  IF ~v.ok \/ j > Len(s) THEN ParseFail
                 ELSE IF s[j] = 125
                      THEN [ok |-> TRUE, val |-> DictSet(acc, k.val, v.val), next |-> j + 1]
                 ELSE IF s[j] = 44 THEN ScanObject(s, j + 1, DictSet(acc, k.val, v.val))
                 ELSE ParseFail

\* json.loads of an object: [ok, val]; trailing non-whitespace is an error
json_loads(s) ==
    LET i == SkipWs(s, 1)
    IN  IF i > Len(s) \/ s[i] # 123 THEN ParseFail
        ELSE LET j == SkipWs(s, i + 1)
                 r == IF j <= Len(s) /\ s[j] = 125
                      THEN [ok |-> TRUE, val |-> <<>>, next |-> j + 1]
                      ELSE ScanObject(s, j, <<>>)
             IN  IF r.ok /\ SkipWs(s, r.next) > Len(s) THEN r ELSE ParseFail

(***************************************************************************)
(* base64.urlsafe_b64encode / urlsafe_b64decode.  The decoder is CPython's *)
(* non-strict binascii.a2b_base64 after the "-_" -> "+/" translation:      *)
(* characters outside the alphabet are skipped, "+" and "/" decode like    *)
(* "-" and "_", the unused low bits of the last character before the       *)
(* padding are dropped, and a completed pad ends the decoding.             *)
(***************************************************************************)
B64Char(v) ==
    IF v < 26 THEN 65 + v
    ELSE IF v < 52 THEN 97 + (v - 26)
    ELSE IF v < 62 THEN 48 + (v - 52)
    ELSE IF v = 62 THEN 45
    ELSE 95

\* the value of a character, 64 for a character outside the alphabet
B64Value(c) ==
    IF c >= 65 /\ c <= 90 THEN c - 65
    ELSE IF c >= 97 /\ c <= 122 THEN c - 97 + 26
    ELSE IF c >= 48 /\ c <= 57 THEN c - 48 + 52
    ELSE IF c \in {43, 45} THEN 62
    ELSE IF c \in {47, 95} THEN 63
    ELSE 64

\* character q (1..4) of the group of bytes 3k-2 .. 3k, "=" past the last byte
B64GroupChar(bs, k, q) ==
    LET n == Len(bs)
        b1 == bs[3 * k - 2]
        b2 == IF 3 * k - 1 <= n THEN bs[3 * k - 1] ELSE 0
        b3 == IF 3 * k <= n THEN bs[3 * k] ELSE 0
    IN  IF q = 1 THEN B64Char(b1 \div 4)
        ELSE IF q = 2 THEN B64Char((b1 % 4) * 16 + b2 \div 16)
        ELSE IF q = 3 THEN (IF 3 * k - 1 <= n THEN B64Char((b2 % 16) * 4 + b3 \div 64) ELSE 61)
        ELSE (IF 3 * k <= n THEN B64Char(b3 % 64) ELSE 61)

urlsafe_b64encode(bs) ==
    [p \in 1..(4 * ((Len(bs) + 2) \div 3)) |-> B64GroupChar(bs, ((p - 1) \div 4) + 1, ((p - 1) % 4) + 1)]

IsB64Data(c) == B64Value(c) # 64

\* the number of alphabet characters among the first i
DataCount(s, i) == Len(SelectSeq(SubSeq(s, 1, i), IsB64Data))

\* binascii.a2b_base64's position in the current group of 4 when it reads s[i]
QuadPos(s, i) == DataCount(s, i - 1) % 4

\* its count of pads once it has read the "=" at i: those since the last
\* alphabet character (it counts only when the group holds 2 or 3 characters)
PadCount(s, i) ==
    Cardinality({j \in 1..i : s[j] = 61 /\ DataCount(s, j) = DataCount(s, i)})

\* the "=" that complete a pad: the decoder stops at the first of them
PadEnds(s) ==
    {i \in 1..Len(s) : s[i] = 61 /\ QuadPos(s, i) >= 2 /\ QuadPos(s, i) + PadCount(s, i) >= 4}

\* the bytes of a sequence of 6-bit values; the bits of an incomplete byte are dropped
SextetsToBytes(v) ==
    [b \in 1..((Len(v) * 6) \div 8) |->
        LET q == ((b - 1) \div 3) * 4
        IN  IF (b - 1) % 3 = 0 THEN v[q + 1] * 4 + v[q + 2] \div 16
            ELSE IF (b - 1) % 3 = 1 THEN (v[q + 2] % 16) * 16 + v[q + 3] \div 4
            ELSE (v[q + 3] % 4) * 64 + v[q + 4]]

\* binascii.a2b_base64(s), non-strict
a2b_base64(s) ==
    LET ends == PadEnds(s)
        stop == IF ends = {} THEN Len(s) + 1 ELSE CHOOSE i \in ends : \A j \in ends : i <= j
        chars == SelectSeq(SubSeq(s, 1, stop - 1), IsB64Data)
        values == [n \in 1..Len(chars) |-> B64Value(chars[n])]
    IN  [ok |-> ends # {} \/ Len(chars) % 4 = 0, bytes |-> SextetsToBytes(values)]

\* [ok, bytes]; ok = FALSE is binascii.Error
urlsafe_b64decode(s) == a2b_base64(s)

(***************************************************************************)
(* Stand-ins for the primitives.  Digest is a polynomial hash modulo the   *)
(* prime 32749; every output byte of the key derivation and of the tag     *)
(* carries it, so two inputs give the same output only if their digests    *)
(* collide.                                                                *)
(***************************************************************************)
\* <<h, m>> for bs[lo..hi]: h the hash of the slice from 0, m = 31^length
RECURSIVE DigestPart(_, _, _)
DigestPart(bs, lo, hi) ==
    IF lo > hi THEN <<0, 1>>
    ELSE IF lo = hi THEN <<(bs[lo] + 1) % 32749, 31>>
    ELSE LET mid == (lo + hi) \div 2
             l == DigestPart(bs, lo, mid)
             r == DigestPart(bs, mid + 1, hi)
         IN  <<(((l[1] * r[2]) % 32749) + r[1]) % 32749, (l[2] * r[2]) % 32749>>

\* h := 7; for b in bs: h := (31 h + b + 1) mod 32749
Digest(bs) ==
    LET d == DigestPart(bs, 1, Len(bs)) IN (((7 * d[2]) % 32749) + d[1]) % 32749

\* n bytes spread from a digest
Spread(h, n) == [i \in 1..n |-> ((IF i % 2 = 0 THEN h \div 256 ELSE h % 256) + i) % 256]

\* variant: the key is derived from the salt alone
kdf_derive_salt_only(password, salt) == Spread(Digest(salt), 32)

\* PBKDF2HMAC(SHA256, length=32, salt, iterations).derive(password)
kdf_derive(password, salt) == Spread(Digest(password \o <<0>> \o salt), 32)

\* HMAC-SHA256(key, data): 32 bytes
hmac_tag(key, data) == Spread(Digest(key \o data), 32)

\* the block before position i in CBC chaining: the IV, then the ciphertext
CbcPrev(iv, ct, i) == IF i <= 16 THEN iv[i] ELSE ct[i - 16]

KeyAt(key, i) == key[((i - 1) % 16) + 1]

\* AES-128-CBC encryption of whole blocks, block by block from the chaining value
RECURSIVE cbc_encrypt_blocks(_, _, _)
cbc_encrypt_blocks(key, prev, pt) ==
    IF pt = <<>> THEN <<>>
    ELSE LET block == [i \in 1..16 |-> (pt[i] + key[i] + prev[i]) % 256]
         IN  block \o cbc_encrypt_blocks(key, block, Drop(pt, 16))

cbc_encrypt(key, iv, pt) == cbc_encrypt_blocks(key, iv, pt)

\* AES-128-CBC decryption of whole blocks
cbc_decrypt(key, iv, ct) ==
    [i \in 1..Len(ct) |-> (ct[i] + 512 - KeyAt(key, i) - CbcPrev(iv, ct, i)) % 256]

\* padding.PKCS7(128).padder()
pkcs7_pad(data) ==
    LET n == 16 - (Len(data) % 16) IN data \o [i \in 1..n |-> n]

\* padding.PKCS7(128).unpadder(): [ok, data]; ok = FALSE is ValueError
pkcs7_unpad(data) ==
    IF data = <<>> \/ Len(data) % 16 # 0 THEN [ok |-> FALSE, data |-> <<>>]
    ELSE LET n == data[Len(data)]
         IN  IF n >= 1 /\ n <= 16 /\ \A i \in (Len(data) - n + 1)..Len(data) : data[i] = n
             THEN [ok |-> TRUE, data |-> DropLast(data, n)]
             ELSE [ok |-> FALSE, data |-> <<>>]

(***************************************************************************)
(* derive_key and cryptography.fernet.Fernet                               *)
(***************************************************************************)
\* F(v), with v evaluated once and held as a value
Bind(v, F(_)) == CHOOSE r \in {F(w) : w \in {v}} : TRUE

\* a sequence as an explicit tuple
Tup(s) == s \o <<>>

derive_key(password, salt) ==
    Bind(Tup(kdf_derive(password, salt)), LAMBDA k : Tup(urlsafe_b64encode(k)))

\* Fernet(key): the decoded key, first half signing key, second half encryption key
fernet_signing_key(key_bytes) == Take(key_bytes, 16)

fernet_encryption_key(key_bytes) == Drop(key_bytes, 16)

\* int.to_bytes(8, "big") of the token's timestamp
TimestampBytes(ts) == <<0, 0, 0, 0, (ts \div 16777216) % 256, (ts \div 65536) % 256, (ts \div 256) % 256, ts % 256>>

\* Fernet.encrypt(data) at time ts with the IV drawn: the token
fernet_encrypt(key, data, ts, iv) ==
    Bind(Tup(urlsafe_b64decode(key).bytes), LAMBDA key_bytes :
    Bind(Tup(cbc_encrypt(fernet_encryption_key(key_bytes), iv, Tup(pkcs7_pad(data)))), LAMBDA ciphertext :
    Bind(<<128>> \o TimestampBytes(ts) \o iv \o ciphertext, LAMBDA basic_parts :
    Bind(Tup(hmac_tag(fernet_signing_key(key_bytes), basic_parts)), LAMBDA tag :
        Tup(urlsafe_b64encode(basic_parts \o tag))))))

\* Fernet._verify_signature(data)
fernet_verify_signature(key_bytes, data) ==
    Tup(hmac_tag(fernet_signing_key(key_bytes), DropLast(data, 32))) = TakeLast(data, 32)

InvalidToken == [ok |-> FALSE, data |-> <<>>]

\* Fernet._decrypt_data once the token is decoded
fernet_decrypt_data(key_bytes, data) ==
    IF data = <<>> \/ data[1] # 128 THEN InvalidToken
    ELSE IF Len(data) < 9 THEN InvalidToken
    ELSE IF ~fernet_verify_signature(key_bytes, data) THEN InvalidToken
    ELSE LET iv == SubSeq(data, 10, Min(25, Len(data)))
             ciphertext == DropLast(Drop(data, 25), 32)
         IN  IF Len(iv) # 16 \/ Len(ciphertext) % 16 # 0 THEN InvalidToken
             ELSE Bind(Tup(cbc_decrypt(fernet_encryption_key(key_bytes), iv, ciphertext)),
                       LAMBDA padded : pkcs7_unpad(padded))

\* Fernet.decrypt(token): [ok, data]; ok = FALSE is InvalidToken
fernet_decrypt(key, token) ==
    Bind(Tup(urlsafe_b64decode(key).bytes), LAMBDA key_bytes :
    Bind(urlsafe_b64decode(token), LAMBDA dec :
        IF ~dec.ok THEN InvalidToken
        ELSE Bind(Tup(dec.bytes), LAMBDA data : fernet_decrypt_data(key_bytes, data))))

(***************************************************************************)
(* decrypt_config's computation on the bytes read, and encrypt_config's    *)
(* bytes to write                                                          *)
(***************************************************************************)
SALT_LEN == 16

\* salt + encrypted (what encrypt_config hands to f_out.write)
encrypt_bytes(data, password, salt, ts, iv) ==
    Bind(derive_key(password, salt), LAMBDA key :
        salt \o fernet_encrypt(key, Tup(json_dumps(data)), ts, iv))

\* [ok, val]; ok = FALSE is any exception raised in decrypt_config after the read
decrypt_bytes(rawbytes, password) ==
    LET salt == Take(rawbytes, SALT_LEN)
        encrypted == Drop(rawbytes, SALT_LEN)
    IN  Bind(derive_key(password, salt), LAMBDA key :
        Bind(fernet_decrypt(key, encrypted), LAMBDA decrypted :
            IF ~decrypted.ok THEN [ok |-> FALSE, val |-> <<>>]
            ELSE Bind(json_loads(decrypted.data), LAMBDA r : [ok |-> r.ok, val |-> r.val])))

\* d[k]: [ok, val]; ok = FALSE is KeyError
DictGet(d, k) ==
    IF \E n \in 1..Len(d) : d[n][1] = k
    THEN [ok |-> TRUE, val |-> d[CHOOSE n \in 1..Len(d) : d[n][1] = k][2]]
    ELSE [ok |-> FALSE, val |-> Str(<<>>)]

K_ADDRESSES == <<98, 116, 99, 95, 97, 100, 100, 114, 101, 115, 115, 101, 115>>

K_API_KEY == <<98, 105, 110, 97, 110, 99, 101, 95, 97, 112, 105, 95, 107, 101, 121>>

K_API_SECRET == <<98, 105, 110, 97, 110, 99, 101, 95, 97, 112, 105, 95, 115, 101, 99, 114, 101, 116>>

\* the dict setup_config builds
MakeConfig(addrs, key, secret) ==
    << <<K_ADDRESSES, List(addrs)>>, <<K_API_KEY, Str(key)>>, <<K_API_SECRET, Str(secret)>> >>

(***************************************************************************)
(* Bounds and input sets                                                   *)
(***************************************************************************)
\* addresses entered in one setup
MaxAddrs == 2

\* program runs in one behaviour
MaxRuns == 2

\* lines typed at "BTC Address": empty, "a", and  "\  with spaces around it
AddressLines == { <<>>, <<97>>, <<32, 34, 92, 32>> }

\* lines typed at the API key and API secret prompts
KeyLines == { <<>>, <<107, 32>> }

SecretLines == { <<115>>, <<115, 34, 120>> }

\* what getpass returns
Passwords == { <<112>>, <<113, 32>> }

\* os.urandom(16) for the salt
Salts == { [i \in 1..SALT_LEN |-> 0], [i \in 1..SALT_LEN |-> (i * 37) % 256] }

\* os.urandom(16) for the IV and int(time.time()) inside Fernet.encrypt
Ivs == { [i \in 1..16 |-> (250 + i * 3) % 256] }

Timestamps == { 1700000000 }

None == -1

\* --assume-price values in cents (None: flag absent); --show-config
AssumePrices == { None, 0, 5000000 }

\* fetch_btc_price replies: Unavailable, or (usd, eur) in cents
Unavailable == << >>

PriceReplies == { Unavailable, <<3000000, 2760000>> }

\* satoshis / 1e8 of a reply, in tenths of a BTC; Unavailable is any exception
BalanceReplies == { Unavailable, <<5>>, <<12>> }

\* free + locked of the BTC asset, in tenths of a BTC
SpotReplies == { Unavailable, <<20>> }

\* EUR_RATE = 0.92, as hundredths
EUR_RATE == 92

(***************************************************************************)
(* State                                                                   *)
(***************************************************************************)
VARIABLES
    exists,      \* os.path.exists(CONFIG_FILE)
    raw,         \* the bytes of CONFIG_FILE
    pc,          \* where the process is
    args,        \* [assume_price, show_config]
    addresses, api_key, api_secret, password, confirm,   \* setup_config's locals
    pending,     \* salt + encrypted, computed and not yet written
    config,      \* the record main() holds (<<>> before load_config returns)
    price_usd, price_eur,
    idx,         \* position of the address loop
    total_btc_addresses,
    out,         \* what was printed and prompted, in order
    net,         \* the network calls made and their replies, in order
    exitcode,    \* None while running
    runs,        \* runs started so far
    start,       \* [exists, raw] when the run started
    ops,         \* the store operations of this run, in order
    saved,       \* [record, password, complete] of the last encrypt_config
    altered      \* "none", or how the file was altered after it was saved

vars == << exists, raw, pc, args, addresses, api_key, api_secret, password, confirm,
           pending, config, price_usd, price_eur, idx, total_btc_addresses,
           out, net, exitcode, runs, start, ops, saved, altered >>

store == << exists, raw >>

setupLocals == << addresses, api_key, api_secret, password, confirm, pending >>

mainLocals == << price_usd, price_eur, idx, total_btc_addresses >>

history == << runs, start, saved, altered >>

NoRecord == << >>

\* no process has run yet
InitProcess ==
    /\ pc = "idle"
    /\ args = [assume_price |-> None, show_config |-> FALSE]
    /\ addresses = <<>> /\ api_key = <<>> /\ api_secret = <<>>
    /\ password = <<>> /\ confirm = <<>>
    /\ pending = <<>>
    /\ config = NoRecord
    /\ price_usd = None /\ price_eur = None
    /\ idx = 1
    /\ total_btc_addresses = 0
    /\ out = <<>>
    /\ net = <<>>
    /\ exitcode = None
    /\ runs = 0
    /\ start = [exists |-> FALSE, raw |-> <<>>]
    /\ ops = <<>>
    /\ altered = "none"

\* before the first run: no config file
Init ==
    /\ exists = FALSE
    /\ raw = <<>>
    /\ saved = [record |-> NoRecord, password |-> <<>>, complete |-> FALSE]
    /\ InitProcess

(***************************************************************************)
(* main(): a run starts                                                    *)
(***************************************************************************)
Exited == pc \in {"idle", "exited"}

\* parser.parse_args(), then main() calls load_config()
StartRun(ap, sc) ==
    /\ Exited
    /\ runs < MaxRuns
    /\ runs' = runs + 1
    /\ args' = [assume_price |-> ap, show_config |-> sc]
    /\ start' = [exists |-> exists, raw |-> raw]
    /\ pc' = "load_config"
    /\ addresses' = <<>> /\ api_key' = <<>> /\ api_secret' = <<>>
    /\ password' = <<>> /\ confirm' = <<>> /\ pending' = <<>>
    /\ config' = NoRecord
    /\ price_usd' = None /\ price_eur' = None
    /\ idx' = 1 /\ total_btc_addresses' = 0
    /\ out' = <<>> /\ net' = <<>> /\ ops' = <<>>
    /\ exitcode' = None
    /\ UNCHANGED << store, saved, altered >>

\* variant: the os.path.exists test inverted
LoadConfigInverted ==
    /\ pc = "load_config"
    /\ ops' = Append(ops, "exists")
    /\ IF exists
       THEN /\ out' = Append(out, <<"first_time_setup">>)
            /\ pc' = "setup_address"
       ELSE /\ out' = out
            /\ pc' = "enter_password"
    /\ UNCHANGED << store, args, setupLocals, config, mainLocals, net, exitcode, history >>

\* load_config: the os.path.exists test
LoadConfig ==
    /\ pc = "load_config"
    /\ ops' = Append(ops, "exists")
    /\ IF ~exists
       THEN /\ out' = Append(out, <<"first_time_setup">>)
            /\ pc' = "setup_address"
       ELSE /\ out' = out
            /\ pc' = "enter_password"
    /\ UNCHANGED << store, args, setupLocals, config, mainLocals, net, exitcode, history >>

(***************************************************************************)
(* setup_config                                                            *)
(***************************************************************************)
\* one pass of the address loop
SetupAddress(line) ==
    /\ pc = "setup_address"
    /\ LET addr == strip(line)
       IN  IF addr = <<>>
           THEN /\ pc' = "setup_api_key"
                /\ addresses' = addresses
           ELSE /\ Len(addresses) < MaxAddrs
                /\ pc' = pc
                /\ addresses' = Append(addresses, addr)
    /\ UNCHANGED << store, args, api_key, api_secret, password, confirm, pending,
                    config, mainLocals, out, net, exitcode, history, ops >>

SetupApiKey(line) ==
    /\ pc = "setup_api_key"
    /\ api_key' = strip(line)
    /\ pc' = "setup_api_secret"
    /\ UNCHANGED << store, args, addresses, api_secret, password, confirm, pending,
                    config, mainLocals, out, net, exitcode, history, ops >>

SetupApiSecret(line) ==
    /\ pc = "setup_api_secret"
    /\ api_secret' = strip(line)
    /\ pc' = "setup_password"
    /\ UNCHANGED << store, args, addresses, api_key, password, confirm, pending,
                    config, mainLocals, out, net, exitcode, history, ops >>

SetupPassword(p) ==
    /\ pc = "setup_password"
    /\ password' = p
    /\ out' = Append(out, <<"getpass", "create">>)
    /\ pc' = "setup_confirm"
    /\ UNCHANGED << store, args, addresses, api_key, api_secret, confirm, pending,
                    config, mainLocals, net, exitcode, history, ops >>

\* variant: the mismatch is reported and setup goes on to save
SetupConfirmNoExit(c) ==
    /\ pc = "setup_confirm"
    /\ confirm' = c
    /\ out' = IF password # c
              THEN out \o << <<"getpass", "confirm">>, <<"passwords_do_not_match">> >>
              ELSE Append(out, <<"getpass", "confirm">>)
    /\ pc' = "encrypt_config"
    /\ UNCHANGED << store, args, addresses, api_key, api_secret, password, pending,
                    config, mainLocals, net, exitcode, history, ops >>

\* the confirmation and the comparison
SetupConfirm(c) ==
    /\ pc = "setup_confirm"
    /\ confirm' = c
    /\ IF password # c
       THEN /\ out' = out \o << <<"getpass", "confirm">>, <<"passwords_do_not_match">> >>
            /\ exitcode' = 1
            /\ pc' = "exited"
       ELSE /\ out' = Append(out, <<"getpass", "confirm">>)
            /\ exitcode' = exitcode
            /\ pc' = "encrypt_config"
    /\ UNCHANGED << store, args, addresses, api_key, api_secret, password, pending,
                    config, mainLocals, net, history, ops >>

\* encrypt_config up to open(CONFIG_FILE, "wb"): the file is created or truncated
EncryptOpen(salt, ts, iv) ==
    /\ pc = "encrypt_config"
    /\ pending' = encrypt_bytes(MakeConfig(addresses, api_key, api_secret), password, salt, ts, iv)
    /\ exists' = TRUE
    /\ raw' = <<>>
    /\ ops' = Append(ops, "open_wb")
    /\ saved' = [record |-> MakeConfig(addresses, api_key, api_secret),
                 password |-> password, complete |-> FALSE]
    /\ altered' = "none"
    /\ pc' = "encrypt_write"
    /\ UNCHANGED << args, addresses, api_key, api_secret, password, confirm, config,
                    mainLocals, out, net, exitcode, runs, start >>

\* f_out.write(salt + encrypted) and the close; setup_config returns the record
EncryptWrite ==
    /\ pc = "encrypt_write"
    /\ raw' = pending
    /\ ops' = Append(ops, "write")
    /\ saved' = [saved EXCEPT !.complete = TRUE]
    /\ out' = Append(out, <<"config_saved">>)
    /\ config' = MakeConfig(addresses, api_key, api_secret)
    /\ pc' = "loaded"
    /\ UNCHANGED << exists, args, setupLocals, mainLocals, net, exitcode, runs, start, altered >>

\* the process dies between the open and the write (signal, power loss)
Kill ==
    /\ pc = "encrypt_write"
    /\ exitcode' = 137
    /\ pc' = "exited"
    /\ UNCHANGED << store, args, setupLocals, config, mainLocals, out, net, history, ops >>

(***************************************************************************)
(* load_config on an existing file                                         *)
(***************************************************************************)
\* getpass, decrypt_config, and the except branch
EnterPassword(p) ==
    /\ pc = "enter_password"
    /\ password' = p
    /\ ops' = Append(ops, "decrypt")
    /\ LET r == decrypt_bytes(raw, p)
       IN  IF r.ok
           THEN /\ config' = r.val
                /\ out' = Append(out, <<"getpass", "enter">>)
                /\ exitcode' = exitcode
                /\ pc' = "loaded"
           ELSE /\ config' = config
                /\ out' = out \o << <<"getpass", "enter">>, <<"invalid_password_or_corrupted">> >>
                /\ exitcode' = 1
                /\ pc' = "exited"
    /\ UNCHANGED << store, args, addresses, api_key, api_secret, confirm, pending,
                    mainLocals, net, history >>

(***************************************************************************)
(* main() after load_config returned                                       *)
(***************************************************************************)
\* Python truth of args.assume_price
Truthy(x) == x # None /\ x # 0

\* an uncaught exception: traceback, exit status 1
UncaughtExit ==
    /\ out' = Append(out, <<"traceback">>)
    /\ exitcode' = 1
    /\ pc' = "exited"

\* variant: the record is printed and the run goes on
AfterLoadNoReturn ==
    /\ pc = "loaded"
    /\ out' = IF args.show_config
              THEN out \o << <<"show_config", config>>, <<"banner">> >>
              ELSE Append(out, <<"banner">>)
    /\ pc' = "price"
    /\ UNCHANGED << store, args, setupLocals, config, mainLocals, net, exitcode, history, ops >>

\* the --show-config branch, or the banner
AfterLoad ==
    /\ pc = "loaded"
    /\ IF args.show_config
       THEN /\ out' = Append(out, <<"show_config", config>>)
            /\ exitcode' = 0
            /\ pc' = "exited"
       ELSE /\ out' = Append(out, <<"banner">>)
            /\ exitcode' = exitcode
            /\ pc' = "price"
    /\ UNCHANGED << store, args, setupLocals, config, mainLocals, net, history, ops >>

\* if args.assume_price: the mocked price
PriceAssumed ==
    /\ pc = "price"
    /\ Truthy(args.assume_price)
    /\ price_usd' = args.assume_price
    /\ price_eur' = (args.assume_price * EUR_RATE) \div 100
    /\ out' = Append(out, <<"mock_price", price_usd', price_eur'>>)
    /\ pc' = "addresses"
    /\ UNCHANGED << store, args, setupLocals, config, idx, total_btc_addresses, net,
                    exitcode, history, ops >>

\* else: fetch_btc_price() and the "if not price_usd" test
PriceFetch(reply) ==
    /\ pc = "price"
    /\ ~Truthy(args.assume_price)
    /\ net' = Append(net, <<"price", reply>>)
    /\ IF reply = Unavailable
       THEN /\ out' = out \o << <<"error_price">>, <<"price_failed">> >>
            /\ exitcode' = 0
            /\ pc' = "exited"
            /\ UNCHANGED << price_usd, price_eur >>
       ELSE /\ price_usd' = reply[1]
            /\ price_eur' = reply[2]
            /\ IF reply[1] = 0
               THEN /\ out' = Append(out, <<"price_failed">>)
                    /\ exitcode' = 0
                    /\ pc' = "exited"
               ELSE /\ out' = Append(out, <<"price", reply[1], reply[2]>>)
                    /\ exitcode' = exitcode
                    /\ pc' = "addresses"
    /\ UNCHANGED << store, args, setupLocals, config, idx, total_btc_addresses,
                    history, ops >>

\* variant: a failed lookup is not caught and ends the run
FetchAddressUncaught(reply) ==
    /\ pc = "addresses"
    /\ idx <= Len(DictGet(config, K_ADDRESSES).val.v)
    /\ LET addr == DictGet(config, K_ADDRESSES).val.v[idx]
       IN  /\ net' = Append(net, <<"address", addr, reply>>)
           /\ IF reply = Unavailable
              THEN /\ UncaughtExit
                   /\ UNCHANGED << idx, total_btc_addresses >>
              ELSE /\ total_btc_addresses' = total_btc_addresses + reply[1]
                   /\ out' = Append(out, <<"address", addr, reply[1], reply[1] * price_usd,
                                          reply[1] * price_eur>>)
                   /\ idx' = idx + 1
                   /\ UNCHANGED << pc, exitcode >>
    /\ UNCHANGED << store, args, setupLocals, config, price_usd, price_eur, history, ops >>

\* one pass of "for addr in config["btc_addresses"]"
FetchAddress(reply) ==
    /\ pc = "addresses"
    /\ LET l == DictGet(config, K_ADDRESSES)
       IN  IF ~l.ok
           THEN /\ UncaughtExit
                /\ UNCHANGED << net, idx, total_btc_addresses >>
           ELSE /\ idx <= Len(l.val.v)
                /\ LET addr == l.val.v[idx]
                       bal == IF reply = Unavailable THEN 0 ELSE reply[1]
                   IN  /\ net' = Append(net, <<"address", addr, reply>>)
                       /\ total_btc_addresses' = total_btc_addresses + bal
                       /\ out' = (IF reply = Unavailable
                                  THEN Append(out, <<"error_balance", addr>>)
                                  ELSE out)
                                 \o << <<"address", addr, bal, bal * price_usd, bal * price_eur>> >>
                /\ idx' = idx + 1
                /\ UNCHANGED << pc, exitcode >>
    /\ UNCHANGED << store, args, setupLocals, config, price_usd, price_eur, history, ops >>

\* after the loop: fetch_binance_spot_balance and the totals; main returns
FetchBinance(reply) ==
    /\ pc = "addresses"
    /\ DictGet(config, K_ADDRESSES).ok
    /\ idx > Len(DictGet(config, K_ADDRESSES).val.v)
    /\ LET k == DictGet(config, K_API_KEY)
           sec == DictGet(config, K_API_SECRET)
           spot_btc == IF reply = Unavailable THEN 0 ELSE reply[1]
           total_btc == total_btc_addresses + spot_btc
       IN  IF ~k.ok \/ ~sec.ok
           THEN /\ UncaughtExit
                /\ net' = net
           ELSE /\ net' = Append(net, <<"binance", k.val.v, sec.val.v, reply>>)
                /\ out' = (IF reply = Unavailable THEN Append(out, <<"error_binance">>) ELSE out)
                          \o << <<"binance", spot_btc, spot_btc * price_usd, spot_btc * price_eur>>,
                                <<"total", total_btc, total_btc * price_usd, total_btc * price_eur>> >>
                /\ exitcode' = 0
                /\ pc' = "exited"
    /\ UNCHANGED << store, args, setupLocals, config, mainLocals, history, ops >>

(***************************************************************************)
(* The program: every run from first-time setup on                         *)
(***************************************************************************)
Next ==
    \/ \E ap \in AssumePrices, sc \in BOOLEAN : StartRun(ap, sc)
    \/ LoadConfig
    \/ \E line \in AddressLines : SetupAddress(line)
    \/ \E line \in KeyLines : SetupApiKey(line)
    \/ \E line \in SecretLines : SetupApiSecret(line)
    \/ \E p \in Passwords : SetupPassword(p)
    \/ \E c \in Passwords : SetupConfirm(c)
    \/ \E salt \in Salts, ts \in Timestamps, iv \in Ivs : EncryptOpen(salt, ts, iv)
    \/ EncryptWrite
    \/ Kill
    \/ \E p \in Passwords : EnterPassword(p)
    \/ AfterLoad
    \/ PriceAssumed
    \/ \E reply \in PriceReplies : PriceFetch(reply)
    \/ \E reply \in BalanceReplies : FetchAddress(reply)
    \/ \E reply \in SpotReplies : FetchBinance(reply)

Spec == Init /\ [][Next]_vars

(***************************************************************************)
(* The stored file altered between runs: one byte of the ciphertext region *)
(* replaced, or the file cut short.  The runs start from a file that a     *)
(* completed encrypt_config wrote.                                         *)
(***************************************************************************)
\* a 34-character address
LongAddress ==
    <<49, 65, 49, 122, 80, 49, 101, 80, 53, 81, 71, 101, 102, 105, 50, 68, 77,
      80, 84, 102, 84, 76, 53, 83, 76, 109, 118, 55, 68, 105, 118, 102, 78, 97>>

\* records of two token lengths: one "=" and two "=" of base64 padding
StoredRecords ==
    { MakeConfig(<<>>, <<107>>, <<115>>), MakeConfig(<< LongAddress >>, <<107>>, <<115>>) }

StoredPassword == <<112>>

StoredSalt == [i \in 1..SALT_LEN |-> (i * 37) % 256]

InitStored ==
    /\ \E rec \in StoredRecords, salt \in {StoredSalt}, ts \in Timestamps, iv \in Ivs :
          /\ raw = encrypt_bytes(rec, StoredPassword, salt, ts, iv)
          /\ saved = [record |-> rec, password |-> StoredPassword, complete |-> TRUE]
    /\ exists = TRUE
    /\ InitProcess

Pow2(k) == IF k = 0 THEN 1 ELSE IF k = 1 THEN 2 ELSE IF k = 2 THEN 4 ELSE IF k = 3 THEN 8
           ELSE IF k = 4 THEN 16 ELSE IF k = 5 THEN 32 ELSE IF k = 6 THEN 64 ELSE 128

FlipBit(b, k) == IF (b \div Pow2(k)) % 2 = 1 THEN b - Pow2(k) ELSE b + Pow2(k)

\* what a byte is replaced by: each single-bit flip, and "+", "/", "="
AlterValues(b) == ({FlipBit(b, k) : k \in 0..7} \cup {43, 47, 61}) \ {b}

\* between runs, before the file is read again
Alterable == Exited /\ runs = 0 /\ exists /\ saved.complete /\ altered = "none"

\* one byte after the salt replaced
AlterByte ==
    /\ Alterable
    /\ \E pos \in (SALT_LEN + 1)..Len(raw) :
          \E val \in AlterValues(raw[pos]) : raw' = [raw EXCEPT ![pos] = val]
    /\ altered' = "byte"
    /\ UNCHANGED << exists, pc, args, setupLocals, config, mainLocals, out, net,
                    exitcode, runs, start, ops, saved >>

\* the file cut to its first n bytes
Truncate ==
    /\ Alterable
    /\ \E n \in 0..(Len(raw) - 1) : raw' = Take(raw, n)
    /\ altered' = "truncated"
    /\ UNCHANGED << exists, pc, args, setupLocals, config, mainLocals, out, net,
                    exitcode, runs, start, ops, saved >>

NextStored ==
    \/ AlterByte
    \/ Truncate
    \/ StartRun(None, FALSE)
    \/ LoadConfig
    \/ \E p \in Passwords : EnterPassword(p)
    \/ AfterLoad
    \/ \E reply \in PriceReplies : PriceFetch(reply)
    \/ \E reply \in BalanceReplies : FetchAddress(reply)
    \/ \E reply \in SpotReplies : FetchBinance(reply)

SpecStored == InitStored /\ [][NextStored]_vars

(***************************************************************************)
(* Properties                                                              *)
(***************************************************************************)
Printed(tag) == \E i \in 1..Len(out) : out[i][1] = tag

Did(op) == \E i \in 1..Len(ops) : ops[i] = op

Called(kind) == \E i \in 1..Len(net) : net[i][1] = kind

ConfirmEntered == \E i \in 1..Len(out) : out[i] = <<"getpass", "confirm">>

\* what a run prints and how it ends when decrypt_config raises
LoadFailure ==
    /\ pc = "exited"
    /\ exitcode = 1
    /\ config = NoRecord
    /\ out = << <<"getpass", "enter">>, <<"invalid_password_or_corrupted">> >>
    /\ net = <<>>

\* C1: at every point of a save the config path holds either what it held
\* when the run started (no file, or the previous complete file) or the
\* complete new salt + ciphertext; never an empty or partial file.
C1_SaveAllOrNothing ==
    \/ << exists, raw >> = << start.exists, start.raw >>
    \/ exists /\ pending # <<>> /\ raw = pending

\* C2: a load with the password of the last completed save returns the
\* record that was saved, whatever salt the save drew.
C2_RoundTrip ==
    (Did("decrypt") /\ saved.complete /\ altered = "none" /\ password = saved.password)
        => (config = saved.record /\ ~Printed("invalid_password_or_corrupted"))

C2_Witness ==
    /\ Did("decrypt") /\ saved.complete /\ password = saved.password
    /\ config = MakeConfig(<< <<34, 92>>, <<34, 92>> >>, <<107>>, <<115, 34, 120>>)
    /\ Take(raw, SALT_LEN) = [i \in 1..SALT_LEN |-> 0]

C4_AlteredNeverLoads ==
    (Did("decrypt") /\ altered # "none" /\ password = saved.password) => LoadFailure

\* C5: in first-run setup, a confirmation that differs from the password ends
\* the process with status 1, the file still absent, no save started and no
\* network call.
C5_SetupMismatch ==
    (~start.exists /\ ConfirmEntered /\ password # confirm)
        => /\ pc = "exited" /\ exitcode = 1
           /\ ~exists /\ raw = <<>>
           /\ ops = <<"exists">>
           /\ net = <<>>
           /\ config = NoRecord

C5_Witness ==
    /\ ~start.exists /\ ConfirmEntered /\ password # confirm
    /\ Len(addresses) = 2
    /\ Printed("passwords_do_not_match")

\* C6: without --assume-price, a failed price lookup ends the run with a
\* non-zero exit status, no balance lookup made and no totals printed.
C6_PriceFailureFatal ==
    (pc = "exited" /\ Printed("price_failed"))
        => /\ exitcode # 0
           /\ ~Called("address") /\ ~Called("binance")
           /\ ~Printed("total")

\* C7: with --assume-price V the run makes no price call and uses V as the
\* USD price and V x 0.92 as the EUR price.
C7_AssumePrice ==
    (args.assume_price # None)
        => /\ ~Called("price")
           /\ (pc = "addresses" \/ Printed("total"))
                 => /\ price_usd = args.assume_price
                    /\ price_eur = (args.assume_price * EUR_RATE) \div 100

\* C8: with --show-config no network call is ever made; the record is printed
\* last, only after a successful decrypt or a completed setup, and the run
\* then ends with status 0 instead of going on to the price.
C8_ShowConfig ==
    args.show_config
        => /\ net = <<>>
           /\ pc \notin {"price", "addresses"}
           /\ \A i \in 1..Len(out) :
                 out[i][1] = "show_config"
                    => /\ i = Len(out)
                       /\ out[i][2] = config /\ config # NoRecord
                       /\ pc = "exited" /\ exitcode = 0
                       /\ \/ start.exists /\ ops = <<"exists", "decrypt">>
                          \/ ~start.exists /\ ops = <<"exists", "open_wb", "write">> /\ raw = pending
           /\ (pc = "exited" /\ config # NoRecord) => Printed("show_config")

C8_WitnessLoad ==
    /\ args.show_config /\ start.exists /\ pc = "exited"
    /\ Printed("show_config")
    /\ config = saved.record

RECURSIVE ReplySum(_)
\* the balances of the replies in a call log, a failed lookup counting 0
ReplySum(calls) ==
    IF calls = <<>> THEN 0
    ELSE LET c == Head(calls)
             r == c[Len(c)]
         IN  (IF c[1] = "price" \/ r = Unavailable THEN 0 ELSE r[1]) + ReplySum(Tail(calls))

\* the balance lookups of a call log
Lookups(calls) == SelectSeq(calls, LAMBDA c : c[1] # "price")

\* C9: once a price is available every stored address is queried once in
\* stored order, then the exchange once, whatever fails; the run reaches the
\* totals with status 0, total BTC the sum of the successful balances and
\* total USD / EUR that sum times the price.
C9_Totals ==
    (price_usd \notin {None, 0} /\ config # NoRecord)
        => LET addrs == DictGet(config, K_ADDRESSES).val.v
               looked == Lookups(net)
               n == Len(addrs)
           IN  /\ pc \in {"addresses", "exited"}
               /\ pc = "addresses"
                     => /\ Len(looked) = idx - 1 /\ idx <= n + 1
                        /\ \A i \in 1..Len(looked) :
                              looked[i][1] = "address" /\ looked[i][2] = addrs[i]
                        /\ total_btc_addresses = ReplySum(looked)
               /\ pc = "exited"
                     => /\ exitcode = 0
                        /\ Len(looked) = n + 1
                        /\ \A i \in 1..n : looked[i][1] = "address" /\ looked[i][2] = addrs[i]
                        /\ looked[n + 1][1] = "binance"
                        /\ out[Len(out)] = <<"total", ReplySum(looked),
                                             ReplySum(looked) * price_usd,
                                             ReplySum(looked) * price_eur>>

\* prices 30000 / 27600, balances 0.5 and 1.2 on a repeated address, exchange 2.0
C9_Witness ==
    /\ pc = "exited"
    /\ price_usd = 3000000 /\ price_eur = 2760000
    /\ Lookups(net) = << <<"address", <<97>>, <<5>> >>, <<"address", <<97>>, <<12>> >>,
                         <<"binance", <<107>>, <<115>>, <<20>> >> >>
    /\ out[Len(out)] = <<"total", 37, 111000000, 102120000>>

\* C10: decryption is attempted only in a run that found the file, a save is
\* started only in a run that did not and whose setup passwords matched, no
\* run does both, the file appears only through that save, and a run that
\* found the file leaves its bytes as they were.
C10_StoreStateMachine ==
    /\ Did("decrypt") => start.exists
    /\ Did("open_wb") => (~start.exists /\ ConfirmEntered /\ password = confirm)
    /\ ~(Did("decrypt") /\ Did("open_wb"))
    /\ (exists /\ ~start.exists) => Did("open_wb")
    /\ start.exists => (exists /\ raw = start.raw)

C10_Witness ==
    /\ start.exists /\ pc = "exited" /\ Printed("price_failed")
    /\ Did("decrypt") /\ raw = start.raw /\ raw # <<>>

====
